---------------------------- MODULE Spec2Model ----------------------------
(***************************************************************************)
(* A model of the adjacency store of src/main.go: the edge-set codec       *)
(* (SerializeEdgeMap / DeserializeEdgeMap), the three Graph operations     *)
(* (AddEdge, RemoveEdge, GetEdges) over the transactional key-value        *)
(* engine, and the goroutines of main with their bounded retry loop.       *)
(*                                                                         *)
(* Byte strings are sequences of one-character strings; an identifier is   *)
(* such a byte string.  A Go map[string]bool whose values are all true     *)
(* (the only maps the program builds) is the set of its keys.              *)
(***************************************************************************)
EXTENDS Integers, Sequences, FiniteSets, TLC

VARIABLES
    db,         \* the engine's committed store: key -> record
    txn,        \* each caller's current transaction handle
    pc,         \* each caller's position
    ret,        \* what the last Graph operation of each caller returned
    item,       \* the item a self-owned GetEdges obtained from txn.Get
    log,        \* history: edit calls run inside the caller's transaction
    expect,     \* history: committed edits applied in commit order
    job,        \* main: the edit each goroutine performs
    i,          \* main: each goroutine's attempt counter
    err,        \* main: each goroutine's last commit outcome
    first,      \* history: outcome of each goroutine's first commit
    raced,      \* history: the goroutines' first transactions overlapped
    final,      \* main: the results of the final reads
    defers,     \* main: each goroutine's deferred Discard calls not yet run
    cset,       \* codec: the set handed to SerializeEdgeMap
    cbytes,     \* codec: the bytes it produced
    cout,       \* codec: the set DeserializeEdgeMap produced from them
    cpc         \* codec: position

vars == <<db, txn, pc, ret, item, log, expect, job, i, err, first, raced,
          final, defers, cset, cbytes, cout, cpc>>

storeVars == <<db, txn, pc, ret, item, log, expect>>
mainVars  == <<job, i, err, first, raced, final, defers>>
codecVars == <<cset, cbytes, cout, cpc>>

-----------------------------------------------------------------------------
(* Edge-set codec                                                          *)

Delim == "|"

\* strings.Split(s, "|"): the segments between delimiters, at least one.
RECURSIVE SplitFrom(_, _)
SplitFrom(s, cur) ==
    IF s = <<>> THEN <<cur>>
    ELSE IF Head(s) = Delim THEN <<cur>> \o SplitFrom(Tail(s), <<>>)
    ELSE SplitFrom(Tail(s), Append(cur, Head(s)))

Split(s) == SplitFrom(s, <<>>)

Range(f) == {f[x] : x \in DOMAIN f}

\* A decoder that keeps the trailing empty segment.
DeserializeKeepingLast(serializedMap) == Range(Split(serializedMap))

DeserializeEdgeMap(serializedMap) ==
    LET slice == Split(serializedMap)
        kept  == IF slice[Len(slice)] = <<>>
                 THEN SubSeq(slice, 1, Len(slice) - 1)
                 ELSE slice
    IN  Range(kept)

\* The byte strings SerializeEdgeMap can return for the map with key set m:
\* one per iteration order of the map.
RECURSIVE SerializeEdgeMap(_)
SerializeEdgeMap(m) ==
    IF m = {} THEN {<<>>}
    ELSE UNION {{k \o <<Delim>> \o r : r \in SerializeEdgeMap(m \ {k})} : k \in m}


-----------------------------------------------------------------------------
(* The key-value engine as the program uses it (badger, in-memory mode):   *)
(* snapshot reads, writes buffered in the transaction, and a commit that   *)
(* fails with ErrConflict when a key the transaction read from the store   *)
(* was written by a transaction that committed after it began.             *)

\* Concurrent callers of the store.
NumCallers == 2
Callers == 1 .. NumCallers

\* The identifiers of the model.  The empty identifier is a legal member of a
\* neighbor set but the engine refuses it as a key.
A == <<"a">>
B == <<"b">>
C == <<"c">>
D == <<"d">>
E == <<"e">>
EmptyId == <<>>
Keys == {A, B, C, D, E}

NoRec == [has |-> FALSE, val |-> <<>>]
Rec(v) == [has |-> TRUE, val |-> v]

NoWrites == [k \in Keys |-> NoRec]

\* A handle that was never opened, or was discarded or committed.
NoTxn == [open |-> FALSE, update |-> FALSE, snap |-> NoWrites,
          pendingWrites |-> NoWrites, reads |-> {}, stale |-> {}]

\* db.NewTransaction(update): the snapshot is the store as committed so far.
NewTxn(update) ==
    [open |-> TRUE, update |-> update, snap |-> db,
     pendingWrites |-> NoWrites, reads |-> {}, stale |-> {}]

\* txn.Get(key): the transaction's own pending write if there is one, else the
\* snapshot; a read served from the snapshot by an update transaction is tracked.
TxnGet(t, key) ==
    IF key = EmptyId THEN [err |-> "ErrEmptyKey", val |-> <<>>, txn |-> t]
    ELSE IF ~t.open THEN [err |-> "ErrDiscardedTxn", val |-> <<>>, txn |-> t]
    ELSE IF t.update /\ t.pendingWrites[key].has
    THEN [err |-> "nil", val |-> t.pendingWrites[key].val, txn |-> t]
    ELSE LET t2 == IF t.update THEN [t EXCEPT !.reads = @ \cup {key}] ELSE t
         IN  IF t.snap[key].has
             THEN [err |-> "nil", val |-> t.snap[key].val, txn |-> t2]
             ELSE [err |-> "ErrKeyNotFound", val |-> <<>>, txn |-> t2]

\* txn.Set(key, val): buffered in the transaction until commit.
TxnSet(t, key, val) ==
    IF ~t.update THEN [err |-> "ErrReadOnlyTxn", txn |-> t]
    ELSE IF ~t.open THEN [err |-> "ErrDiscardedTxn", txn |-> t]
    ELSE IF key = EmptyId THEN [err |-> "ErrEmptyKey", txn |-> t]
    ELSE [err |-> "nil", txn |-> [t EXCEPT !.pendingWrites[key] = Rec(val)]]

Written(t) == {k \in Keys : t.pendingWrites[k].has}

\* The engine's commit-time check.
HasConflict(t) == t.reads \cap t.stale # {}

\* txn.Commit() by caller p: the outcome, the store and the handles after it.
\* A transaction with no pending write commits trivially; every outcome
\* leaves the handle discarded.
TxnCommit(p) ==
    LET t == txn[p]
        W == Written(t)
        closed == [txn EXCEPT ![p] = NoTxn]
    IN  IF W = {} THEN [err |-> "nil", db |-> db, txn |-> closed]
        ELSE IF HasConflict(t)
        THEN [err |-> "ErrConflict", db |-> db, txn |-> closed]
        ELSE [err |-> "nil",
              db  |-> [k \in Keys |-> IF k \in W THEN t.pendingWrites[k] ELSE db[k]],
              txn |-> [q \in DOMAIN txn |->
                         IF q = p THEN NoTxn
                         ELSE IF txn[q].open /\ txn[q].update
                         THEN [txn[q] EXCEPT !.stale = @ \cup W]
                         ELSE txn[q]]]

-----------------------------------------------------------------------------
(* Graph operations, as functions of the transaction they run in           *)

\* AddEdge reading the record outside the transaction it writes in: the read
\* is not tracked by that transaction.
AddEdgeUntracked(t, from, to) ==
    LET g == TxnGet(t, from)
    IN  IF g.err \notin {"nil", "ErrKeyNotFound"}
        THEN {[err |-> g.err, txn |-> t]}
        ELSE LET dstNodes == (IF g.err = "ErrKeyNotFound" THEN {}
                              ELSE DeserializeEdgeMap(g.val)) \cup {to}
             IN  {LET s == TxnSet(t, from, b)
                  IN  [err |-> s.err, txn |-> s.txn] : b \in SerializeEdgeMap(dstNodes)}

\* AddEdge starting from the empty set whatever it read.
AddEdgeFromEmpty(t, from, to) ==
    LET g == TxnGet(t, from)
    IN  IF g.err \notin {"nil", "ErrKeyNotFound"}
        THEN {[err |-> g.err, txn |-> g.txn]}
        ELSE {LET s == TxnSet(g.txn, from, b)
              IN  [err |-> s.err, txn |-> s.txn] : b \in SerializeEdgeMap({to})}

\* AddEdge refusing an edge that is already there.
AddEdgeRejectsDuplicate(t, from, to) ==
    LET g == TxnGet(t, from)
    IN  IF g.err \notin {"nil", "ErrKeyNotFound"}
        THEN {[err |-> g.err, txn |-> g.txn]}
        ELSE IF g.err = "nil" /\ to \in DeserializeEdgeMap(g.val)
        THEN {[err |-> "ErrDuplicate", txn |-> g.txn]}
        ELSE LET dstNodes == (IF g.err = "ErrKeyNotFound" THEN {}
                              ELSE DeserializeEdgeMap(g.val)) \cup {to}
             IN  {LET s == TxnSet(g.txn, from, b)
                  IN  [err |-> s.err, txn |-> s.txn] : b \in SerializeEdgeMap(dstNodes)}

\* AddEdge reading the committed snapshot past the transaction's own pending
\* write, as a read outside the transaction would.
AddEdgeFromSnapshot(t, from, to) ==
    LET g == TxnGet([t EXCEPT !.pendingWrites = NoWrites], from)
    IN  IF g.err \notin {"nil", "ErrKeyNotFound"}
        THEN {[err |-> g.err, txn |-> t]}
        ELSE LET dstNodes == (IF g.err = "ErrKeyNotFound" THEN {}
                              ELSE DeserializeEdgeMap(g.val)) \cup {to}
                 t2 == [t EXCEPT !.reads = g.txn.reads]
             IN  {LET s == TxnSet(t2, from, b)
                  IN  [err |-> s.err, txn |-> s.txn] : b \in SerializeEdgeMap(dstNodes)}

\* AddEdge also creating an empty record for the destination when the
\* transaction sees none.
AddEdgeCreatesTo(t, from, to) ==
    LET g == TxnGet(t, from)
    IN  IF g.err \notin {"nil", "ErrKeyNotFound"}
        THEN {[err |-> g.err, txn |-> g.txn]}
        ELSE LET dstNodes == (IF g.err = "ErrKeyNotFound" THEN {}
                              ELSE DeserializeEdgeMap(g.val)) \cup {to}
                 d == TxnGet(g.txn, to)
                 t2 == IF d.err = "ErrKeyNotFound"
                       THEN TxnSet(d.txn, to, <<>>).txn ELSE d.txn
             IN  {LET s == TxnSet(t2, from, b)
                  IN  [err |-> s.err, txn |-> s.txn] : b \in SerializeEdgeMap(dstNodes)}

\* AddEdge, from txn.Get to txn.Set: the possible (err, txn) outcomes, one per
\* byte string SerializeEdgeMap can produce.
AddEdgeStaged(t, from, to) ==
    LET g == TxnGet(t, from)
    IN  IF g.err \notin {"nil", "ErrKeyNotFound"}
        THEN {[err |-> g.err, txn |-> g.txn]}
        ELSE LET dstNodes == (IF g.err = "ErrKeyNotFound" THEN {}
                              ELSE DeserializeEdgeMap(g.val)) \cup {to}
             IN  {LET s == TxnSet(g.txn, from, b)
                  IN  [err |-> s.err, txn |-> s.txn] : b \in SerializeEdgeMap(dstNodes)}

\* RemoveEdge deleting the source instead of the destination from the set.
RemoveEdgeDeletesFrom(t, from, to) ==
    LET g == TxnGet(t, from)
    IN  IF g.err # "nil"
        THEN {[err |-> g.err, txn |-> g.txn]}
        ELSE LET dstNodes == DeserializeEdgeMap(g.val) \ {from}
             IN  {LET s == TxnSet(g.txn, from, b)
                  IN  [err |-> s.err, txn |-> s.txn] : b \in SerializeEdgeMap(dstNodes)}

\* RemoveEdge treating a missing record as the empty set, as AddEdge does.
RemoveEdgeFromEmpty(t, from, to) ==
    LET g == TxnGet(t, from)
    IN  IF g.err \notin {"nil", "ErrKeyNotFound"}
        THEN {[err |-> g.err, txn |-> g.txn]}
        ELSE LET dstNodes == (IF g.err = "ErrKeyNotFound" THEN {}
                              ELSE DeserializeEdgeMap(g.val)) \ {to}
             IN  {LET s == TxnSet(g.txn, from, b)
                  IN  [err |-> s.err, txn |-> s.txn] : b \in SerializeEdgeMap(dstNodes)}

\* RemoveEdge failing when the member to remove is not there.
RemoveEdgeMissingIsError(t, from, to) ==
    LET g == TxnGet(t, from)
    IN  IF g.err # "nil"
        THEN {[err |-> g.err, txn |-> g.txn]}
        ELSE IF to \notin DeserializeEdgeMap(g.val)
        THEN {[err |-> "ErrKeyNotFound", txn |-> g.txn]}
        ELSE LET dstNodes == DeserializeEdgeMap(g.val) \ {to}
             IN  {LET s == TxnSet(g.txn, from, b)
                  IN  [err |-> s.err, txn |-> s.txn] : b \in SerializeEdgeMap(dstNodes)}

\* RemoveEdge not writing the set back when the removal empties it.
RemoveEdgeKeepsLast(t, from, to) ==
    LET g == TxnGet(t, from)
    IN  IF g.err # "nil"
        THEN {[err |-> g.err, txn |-> g.txn]}
        ELSE LET dstNodes == DeserializeEdgeMap(g.val) \ {to}
             IN  IF dstNodes = {} THEN {[err |-> "nil", txn |-> g.txn]}
                 ELSE {LET s == TxnSet(g.txn, from, b)
                       IN  [err |-> s.err, txn |-> s.txn] : b \in SerializeEdgeMap(dstNodes)}

\* RemoveEdge, from txn.Get to txn.Set.
RemoveEdgeStaged(t, from, to) ==
    LET g == TxnGet(t, from)
    IN  IF g.err # "nil"
        THEN {[err |-> g.err, txn |-> g.txn]}
        ELSE LET dstNodes == DeserializeEdgeMap(g.val) \ {to}
             IN  {LET s == TxnSet(g.txn, from, b)
                  IN  [err |-> s.err, txn |-> s.txn] : b \in SerializeEdgeMap(dstNodes)}

\* GetEdges answering a missing record with an empty value.
GetEdgesGetMissingAsEmpty(t, from) ==
    LET g == TxnGet(t, from)
    IN  IF g.err = "ErrKeyNotFound" THEN [g EXCEPT !.err = "nil"] ELSE g

\* GetEdges reading the record of node "a" whatever source it is asked for.
GetEdgesGetFirstNode(t, from) == TxnGet(t, A)

\* GetEdges, its txn.Get and the error return after it.
GetEdgesGet(t, from) == TxnGet(t, from)

NoSet == [has |-> FALSE, set |-> {}]
SomeSet(s) == [has |-> TRUE, set |-> s]

Returned(op, from, to, local, e, v) ==
    [op |-> op, from |-> from, to |-> to, local |-> local, err |-> e, val |-> v]

NoRet == Returned("none", EmptyId, EmptyId, FALSE, "nil", NoSet)


-----------------------------------------------------------------------------
(* History: the edits of the committed transactions, in commit order.      *)
(* The edits a transaction ran are kept as their combined effect on each   *)
(* source: the members added and the members removed (the later edit of a  *)
(* member wins), which is what applying them in order does to a set.       *)

NoEff == [touched |-> FALSE, add |-> {}, del |-> {}]
NoCall == [op |-> "none", from |-> EmptyId, to |-> EmptyId]

\* No edit call yet: ran holds the sources an edit call named (whether or
\* not it succeeded), eff the effect of the successful ones.
NoLog == [call |-> NoCall, ran |-> {}, eff |-> [k \in Keys |-> NoEff]]

\* The history after one more edit call with outcome e; a self-owned call is
\* remembered until it returns.
Logged(l, local, op, from, to, e) ==
    [call |-> IF local THEN [op |-> op, from |-> from, to |-> to] ELSE NoCall,
     ran  |-> l.ran \cup ({from} \cap Keys),
     eff  |-> IF e # "nil" THEN l.eff
              ELSE IF op = "AddEdge"
              THEN [l.eff EXCEPT ![from] = [touched |-> TRUE,
                                            add |-> @.add \cup {to},
                                            del |-> @.del \ {to}]]
              ELSE [l.eff EXCEPT ![from] = [touched |-> TRUE,
                                            add |-> @.add \ {to},
                                            del |-> @.del \cup {to}]]]

\* The edits of a committed transaction applied to the abstract graph g.
ApplyEdits(g, eff) ==
    [k \in Keys |-> IF eff[k].touched
                    THEN [has |-> TRUE, set |-> (g[k].set \ eff[k].del) \cup eff[k].add]
                    ELSE g[k]]

\* The committed store, decoded.
Decoded(r) == IF r.has THEN SomeSet(DeserializeEdgeMap(r.val)) ELSE NoSet
Graph == [k \in Keys |-> Decoded(db[k])]

\* What a transaction sees for a key: its pending write, else its snapshot.
View(t, k) == IF t.pendingWrites[k].has THEN t.pendingWrites[k] ELSE t.snap[k]

-----------------------------------------------------------------------------
(* Callers of the store: each either calls an operation with no            *)
(* transaction, or opens a transaction, calls operations with it and       *)
(* commits or discards it.                                                  *)

\* The edges the callers add and remove, and the sources they look up: one
\* source with two possible neighbors.
Edges == {<<A, B>>, <<A, C>>}
Froms == {A}

\* A destination that is looked up with no transaction.
Dsts == {B}

\* The caller opens a read-write transaction of its own.
NewTransaction(p) ==
    /\ pc[p] = "idle"
    /\ txn' = [txn EXCEPT ![p] = NewTxn(TRUE)]
    /\ pc' = [pc EXCEPT ![p] = "intxn"]
    /\ log' = [log EXCEPT ![p] = NoLog]
    /\ UNCHANGED <<db, ret, item, expect, mainVars, codecVars>>

\* An edit call that treats every transaction as its own: it goes on to
\* commit the transaction the caller supplied.
EditCallOwnsAlways(p, op, from, to, outcomes) ==
    \E o \in outcomes :
      /\ log' = [log EXCEPT ![p] = Logged(IF pc[p] = "idle" THEN NoLog ELSE @,
                                          TRUE, op, from, to, o.err)]
      /\ IF o.err # "nil"
         THEN /\ ret' = [ret EXCEPT ![p] = Returned(op, from, to, TRUE, o.err, NoSet)]
              /\ txn' = [txn EXCEPT ![p] = NoTxn]
              /\ pc' = [pc EXCEPT ![p] = "returned"]
         ELSE /\ txn' = [txn EXCEPT ![p] = o.txn]
              /\ pc' = [pc EXCEPT ![p] = "commit"]
              /\ ret' = ret
      /\ UNCHANGED <<db, item, expect, mainVars, codecVars>>

\* An edit call up to its txn.Set.  With no transaction supplied it opens its
\* own (nothing can come between NewTransaction and the reads of the
\* snapshot it fixes) and goes on to commit; an error return runs the
\* deferred Discard of a self-owned transaction.
EditCall(p, op, from, to, outcomes) ==
    LET local == pc[p] = "idle"
    IN  \E o \in outcomes :
          /\ log' = [log EXCEPT ![p] =
                       IF local /\ o.err # "nil" THEN NoLog
                       ELSE Logged(IF local THEN NoLog ELSE @, local, op, from, to, o.err)]
          /\ IF o.err # "nil"
             THEN /\ ret' = [ret EXCEPT ![p] = Returned(op, from, to, local, o.err, NoSet)]
                  /\ txn' = [txn EXCEPT ![p] = IF local THEN NoTxn ELSE o.txn]
                  /\ pc' = [pc EXCEPT ![p] = "returned"]
             ELSE /\ txn' = [txn EXCEPT ![p] = o.txn]
                  /\ IF local
                     THEN /\ pc' = [pc EXCEPT ![p] = "commit"]
                          /\ ret' = ret
                     ELSE /\ pc' = [pc EXCEPT ![p] = "returned"]
                          /\ ret' = [ret EXCEPT ![p] =
                                       Returned(op, from, to, FALSE, "nil", NoSet)]
          /\ UNCHANGED <<db, item, expect, mainVars, codecVars>>

CallTxn(p) == IF pc[p] = "idle" THEN NewTxn(TRUE) ELSE txn[p]

AddEdge(p, from, to) ==
    /\ pc[p] \in {"idle", "intxn"}
    /\ EditCall(p, "AddEdge", from, to, AddEdgeStaged(CallTxn(p), from, to))

RemoveEdge(p, from, to) ==
    /\ pc[p] \in {"idle", "intxn"}
    /\ EditCall(p, "RemoveEdge", from, to, RemoveEdgeStaged(CallTxn(p), from, to))

\* The commit of txn[p], with its effect on the history.
Committing(p, c) ==
    /\ db' = c.db
    /\ txn' = c.txn
    /\ expect' = IF c.err = "nil" THEN ApplyEdits(expect, log[p].eff) ELSE expect
    /\ log' = [log EXCEPT ![p] = NoLog]

\* A self-owned edit that, on Conflict, runs again in a new transaction
\* instead of returning.
OwnCommitRetries(p) ==
    /\ pc[p] = "commit"
    /\ LET c == TxnCommit(p)
           e == log[p].call
       IN  IF c.err = "ErrConflict"
           THEN /\ \E o \in (IF e.op = "AddEdge"
                             THEN AddEdgeStaged(NewTxn(TRUE), e.from, e.to)
                             ELSE RemoveEdgeStaged(NewTxn(TRUE), e.from, e.to)) :
                      /\ o.err = "nil"
                      /\ txn' = [txn EXCEPT ![p] = o.txn]
                /\ UNCHANGED <<db, expect, log, ret, pc>>
           ELSE /\ Committing(p, c)
                /\ ret' = [ret EXCEPT ![p] = Returned(e.op, e.from, e.to, TRUE, c.err, NoSet)]
                /\ pc' = [pc EXCEPT ![p] = "returned"]
    /\ UNCHANGED <<item, mainVars, codecVars>>

\* The commit that ends a self-owned AddEdge or RemoveEdge, and its return.
OwnCommit(p) ==
    /\ pc[p] = "commit"
    /\ LET c == TxnCommit(p)
           e == log[p].call
       IN  /\ Committing(p, c)
           /\ ret' = [ret EXCEPT ![p] = Returned(e.op, e.from, e.to, TRUE, c.err, NoSet)]
    /\ pc' = [pc EXCEPT ![p] = "returned"]
    /\ UNCHANGED <<item, mainVars, codecVars>>

\* The caller commits its transaction.
CallerCommit(p) ==
    /\ pc[p] = "intxn"
    /\ LET c == TxnCommit(p)
       IN  /\ Committing(p, c)
           /\ ret' = [ret EXCEPT ![p] = Returned("Commit", EmptyId, EmptyId, FALSE, c.err, NoSet)]
    /\ pc' = [pc EXCEPT ![p] = "returned"]
    /\ UNCHANGED <<item, mainVars, codecVars>>

\* The caller discards its transaction.
CallerDiscard(p) ==
    /\ pc[p] = "intxn"
    /\ txn' = [txn EXCEPT ![p] = NoTxn]
    /\ log' = [log EXCEPT ![p] = NoLog]
    /\ pc' = [pc EXCEPT ![p] = "idle"]
    /\ UNCHANGED <<db, ret, item, expect, mainVars, codecVars>>

\* GetEdges opening a read-write transaction for itself.
GetTxnUpdate(p) == IF pc[p] = "idle" THEN NewTxn(TRUE) ELSE txn[p]

\* The transaction a GetEdges call by p reads in: the caller's, or a
\* read-only one of its own.
GetTxn(p) == IF pc[p] = "idle" THEN NewTxn(FALSE) ELSE txn[p]

\* GetEdges up to its txn.Get.  With the caller's transaction the rest of
\* the function touches nothing shared and the call returns in this step;
\* with its own read-only transaction it goes on to commit.
GetEdges(p, from) ==
    /\ pc[p] \in {"idle", "intxn"}
    /\ LET local == pc[p] = "idle"
           g == GetEdgesGet(GetTxn(p), from)
       IN  IF g.err # "nil"
           THEN /\ ret' = [ret EXCEPT ![p] =
                             Returned("GetEdges", from, EmptyId, local, g.err, NoSet)]
                /\ txn' = [txn EXCEPT ![p] = IF local THEN NoTxn ELSE g.txn]
                /\ pc' = [pc EXCEPT ![p] = "returned"]
                /\ item' = item
           ELSE IF local
           THEN /\ txn' = [txn EXCEPT ![p] = g.txn]
                /\ item' = [item EXCEPT ![p] = [from |-> from, val |-> g.val]]
                /\ pc' = [pc EXCEPT ![p] = "getcommit"]
                /\ ret' = ret
           ELSE /\ txn' = [txn EXCEPT ![p] = g.txn]
                /\ ret' = [ret EXCEPT ![p] =
                             Returned("GetEdges", from, EmptyId, FALSE, "nil",
                                      SomeSet(DeserializeEdgeMap(g.val)))]
                /\ pc' = [pc EXCEPT ![p] = "returned"]
                /\ item' = item
    /\ UNCHANGED <<db, log, expect, mainVars, codecVars>>

\* The commit of a self-owned GetEdges: a read-only transaction has no
\* pending write, so it is discarded and the commit succeeds.
GetEdgesCommit(p) ==
    /\ pc[p] = "getcommit"
    /\ LET c == TxnCommit(p)
       IN  /\ db' = c.db
           /\ txn' = c.txn
           /\ IF c.err # "nil"
              THEN /\ ret' = [ret EXCEPT ![p] =
                                Returned("GetEdges", item[p].from, EmptyId, TRUE, c.err, NoSet)]
                   /\ pc' = [pc EXCEPT ![p] = "returned"]
              ELSE /\ ret' = ret
                   /\ pc' = [pc EXCEPT ![p] = "getvalue"]
    /\ UNCHANGED <<item, log, expect, mainVars, codecVars>>

NoItem == [from |-> EmptyId, val |-> <<>>]

\* item.ValueCopy and the decoding, after the commit.
GetEdgesValue(p) ==
    /\ pc[p] = "getvalue"
    /\ ret' = [ret EXCEPT ![p] =
                 Returned("GetEdges", item[p].from, EmptyId, TRUE, "nil",
                          SomeSet(DeserializeEdgeMap(item[p].val)))]
    /\ item' = [item EXCEPT ![p] = NoItem]
    /\ pc' = [pc EXCEPT ![p] = "returned"]
    /\ UNCHANGED <<db, txn, log, expect, mainVars, codecVars>>

\* The caller takes the returned result and goes on: inside its transaction
\* when that is still open, else with no transaction.
Resume(p) ==
    /\ pc[p] = "returned"
    /\ ret' = [ret EXCEPT ![p] = NoRet]
    /\ pc' = [pc EXCEPT ![p] = IF txn[p].open THEN "intxn" ELSE "idle"]
    /\ UNCHANGED <<db, txn, item, log, expect, mainVars, codecVars>>

\* The store as NewGraph opens it in memory, with no caller in a call.
StoreInit ==
    /\ db = [k \in Keys |-> NoRec]
    /\ txn = [p \in Callers |-> NoTxn]
    /\ pc = [p \in Callers |-> "idle"]
    /\ ret = [p \in Callers |-> NoRet]
    /\ item = [p \in Callers |-> NoItem]
    /\ log = [p \in Callers |-> NoLog]
    /\ expect = [k \in Keys |-> NoSet]

MainOff ==
    /\ job = <<>>
    /\ i = <<>>
    /\ err = <<>>
    /\ first = <<>>
    /\ raced = FALSE
    /\ final = <<>>
    /\ defers = <<>>

CodecOff ==
    /\ cset = {}
    /\ cbytes = <<>>
    /\ cout = {}
    /\ cpc = "off"

Init == StoreInit /\ MainOff /\ CodecOff

Next ==
    \E p \in Callers :
        \/ NewTransaction(p)
        \/ \E e \in Edges : AddEdge(p, e[1], e[2])
        \/ \E e \in Edges : RemoveEdge(p, e[1], e[2])
        \/ \E from \in Froms : GetEdges(p, from)
        \/ \E to \in Dsts : pc[p] = "idle" /\ GetEdges(p, to)
        \/ OwnCommit(p)
        \/ CallerCommit(p)
        \/ CallerDiscard(p)
        \/ GetEdgesCommit(p)
        \/ GetEdgesValue(p)
        \/ Resume(p)

Spec == Init /\ [][Next]_vars


-----------------------------------------------------------------------------
(* The codec on its own: a set is serialized in some iteration order and   *)
(* the bytes are deserialized.                                             *)

MaxIdLen == 2
MaxSetSize == 2

CodecChars == {"a", "b", Delim}
CodecIds == UNION {[1 .. n -> CodecChars] : n \in 0 .. MaxIdLen}

RECURSIVE SetsUpTo(_)
SetsUpTo(n) ==
    IF n = 0 THEN {{}}
    ELSE LET r == SetsUpTo(n - 1) IN r \cup {s \cup {x} : s \in r, x \in CodecIds}

CodecInit ==
    /\ StoreInit /\ MainOff
    /\ cset \in SetsUpTo(MaxSetSize)
    /\ cbytes = <<>>
    /\ cout = {}
    /\ cpc = "start"

CodecSerialize ==
    /\ cpc = "start"
    /\ cbytes' \in SerializeEdgeMap(cset)
    /\ cpc' = "encoded"
    /\ UNCHANGED <<cset, cout, storeVars, mainVars>>

CodecDeserialize ==
    /\ cpc = "encoded"
    /\ cout' = DeserializeEdgeMap(cbytes)
    /\ cpc' = "decoded"
    /\ UNCHANGED <<cset, cbytes, storeVars, mainVars>>

CodecNext == CodecSerialize \/ CodecDeserialize

CodecSpec == CodecInit /\ [][CodecNext]_vars

DelimFree(s) == \A id \in s : \A n \in DOMAIN id : id[n] # Delim

\* C4: for every finite set of identifiers none of which contains the
\* delimiter (the empty set and the empty identifier included), decoding
\* any serialization of the set gives the set back.
C4_RoundTrip == (cpc = "decoded" /\ DelimFree(cset)) => cout = cset

\* A set holding the empty identifier and another one has gone through.
C4_Witness ==
    /\ cpc = "decoded"
    /\ cset = {EmptyId, <<"a", "b">>}
    /\ cbytes = <<"a", "b", Delim, Delim>>

\* C5: the round trip holds for every finite set of identifiers, those
\* containing the delimiter included.
C5_RoundTripAllIds == cpc = "decoded" => cout = cset


-----------------------------------------------------------------------------
(* Claims about the operations, under Spec                                 *)

\* The set a transaction sees for a key, an absent record read as empty.
SeenSet(t, k) == IF View(t, k).has THEN DeserializeEdgeMap(View(t, k).val) ELSE {}

\* Caller p commits: the commit inside a self-owned edit, or its own.
Commits(p) == OwnCommit(p) \/ CallerCommit(p)

\* Another transaction's commit has overwritten what p's transaction read of
\* a source it ran an edit call on.
Overwritten(p) == log[p].ran \cap txn[p].reads \cap txn[p].stale # {}

\* The committed record of every source is the result of applying, in commit
\* order, the edits of the transactions that committed.
CommittedIsHistory == Graph = expect

\* C1 as stated: every transaction that ran AddEdge or RemoveEdge on a source
\* and whose read of it was overwritten by another commit fails at commit
\* with Conflict and writes nothing, and the committed records are the
\* committed edits applied in commit order.
C1_Original ==
    /\ [][\A p \in Callers :
            (Commits(p) /\ Overwritten(p))
                => (ret'[p].err = "ErrConflict" /\ db' = db)]_vars
    /\ []CommittedIsHistory

\* C1, amended: a transaction that staged a write and whose read of the
\* source was overwritten by another commit fails at commit with Conflict
\* and writes nothing (a transaction that staged nothing, its RemoveEdge
\* having found no record, commits trivially); the committed records are the
\* committed edits applied in commit order.
C1_NoLostUpdate ==
    /\ [][\A p \in Callers :
            (Commits(p) /\ Overwritten(p) /\ Written(txn[p]) # {})
                => (ret'[p].err = "ErrConflict" /\ db' = db)]_vars
    /\ []CommittedIsHistory

\* A commit has just failed with Conflict while the other caller's edit of
\* the same source is committed.
C1_Witness ==
    \E p \in Callers :
        /\ pc[p] = "returned"
        /\ ret[p].err = "ErrConflict"
        /\ Graph[A].has

\* C6: a successful AddEdge(from, to) changes the pending writes of its
\* transaction at key from only, and the value staged there decodes to the
\* set the transaction saw for from (empty when there was no record) with to
\* added, and nothing else.
C6_AddEdgeResult ==
    [][\A p \in Callers : \A e \in Edges :
         (AddEdge(p, e[1], e[2]) /\ ret'[p].err = "nil")
            => LET t0 == CallTxn(p)
                   t1 == txn'[p]
               IN  /\ \A k \in Keys \ {e[1]} : t1.pendingWrites[k] = t0.pendingWrites[k]
                   /\ t1.pendingWrites[e[1]].has
                   /\ DeserializeEdgeMap(t1.pendingWrites[e[1]].val)
                        = SeenSet(t0, e[1]) \cup {e[2]}]_vars

\* An AddEdge inside a caller's transaction has returned success with a
\* second member added to a committed record of one.
C6_Witness ==
    \E p \in Callers :
        /\ pc[p] = "returned"
        /\ ret[p] = Returned("AddEdge", A, C, FALSE, "nil", NoSet)
        /\ Decoded(txn[p].snap[A]) = SomeSet({B})
        /\ Decoded(txn[p].pendingWrites[A]) = SomeSet({B, C})

\* The self-owned edit call caller p is committing.
OwnCall(p, op, from, to) ==
    /\ OwnCommit(p)
    /\ log[p].call = [op |-> op, from |-> from, to |-> to]

\* C7: AddEdge(a, b) on a record that already holds b, as it does after a
\* first AddEdge(a, b), is not refused, and its successful commit leaves the
\* neighbor set of a as it was; after any successful AddEdge(a, b) the
\* committed set of a holds b.
C7_AddIdempotent ==
    [][\A p \in Callers : \A e \in Edges :
         /\ (AddEdge(p, e[1], e[2]) /\ e[2] \in SeenSet(CallTxn(p), e[1]))
               => ret'[p].err = "nil"
         /\ (OwnCall(p, "AddEdge", e[1], e[2]) /\ ret'[p].err = "nil")
               => /\ e[2] \in Graph'[e[1]].set
                  /\ e[2] \in Graph[e[1]].set => Graph'[e[1]] = Graph[e[1]]]_vars

\* Two self-owned AddEdge(a, b) have both returned success, so one ran after
\* the other had committed, and the committed set of a is {b}.
C7_Witness ==
    \E p \in Callers : \E q \in Callers \ {p} :
        /\ pc[p] = "returned" /\ pc[q] = "returned"
        /\ ret[p] = Returned("AddEdge", A, B, TRUE, "nil", NoSet)
        /\ ret[q] = ret[p]
        /\ Graph[A] = SomeSet({B})

\* C8: RemoveEdge(from, to) on a source its transaction sees no record of
\* returns NotFound, leaves the pending writes and the committed store as
\* they were, and the record is still missing afterwards, for the
\* transaction and in the store.
C8_RemoveAbsentFails ==
    [][\A p \in Callers : \A e \in Edges :
         (RemoveEdge(p, e[1], e[2]) /\ ~View(CallTxn(p), e[1]).has)
            => /\ pc'[p] = "returned"
               /\ ret'[p] = Returned("RemoveEdge", e[1], e[2], pc[p] = "idle",
                                     "ErrKeyNotFound", NoSet)
               /\ db' = db
               /\ pc[p] = "idle" => (txn'[p] = NoTxn /\ ~db'[e[1]].has)
               /\ pc[p] = "intxn" => /\ txn'[p].pendingWrites = txn[p].pendingWrites
                                     /\ ~View(txn'[p], e[1]).has]_vars

\* A self-owned RemoveEdge has returned NotFound and the source has no
\* committed record.
C8_Witness ==
    \E p \in Callers :
        /\ pc[p] = "returned"
        /\ ret[p] = Returned("RemoveEdge", A, B, TRUE, "ErrKeyNotFound", NoSet)
        /\ ~db[A].has

\* C9: RemoveEdge(a, x) on a record that exists and does not hold x succeeds
\* and leaves the set its transaction sees for a as it was; committed by the
\* call itself, it leaves the committed set of a as it was.
C9_RemoveMissingMember ==
    [][\A p \in Callers : \A e \in Edges :
         /\ (RemoveEdge(p, e[1], e[2]) /\ View(CallTxn(p), e[1]).has
                /\ e[2] \notin SeenSet(CallTxn(p), e[1]))
               => /\ ret'[p].err = "nil"
                  /\ View(txn'[p], e[1]).has
                  /\ SeenSet(txn'[p], e[1]) = SeenSet(CallTxn(p), e[1])
         /\ (OwnCall(p, "RemoveEdge", e[1], e[2]) /\ ret'[p].err = "nil"
                /\ Graph[e[1]].has /\ e[2] \notin Graph[e[1]].set)
               => Graph'[e[1]] = Graph[e[1]]]_vars

\* A RemoveEdge(a, b) inside a caller's transaction has returned success
\* where the record of a held only c and the transaction had added nothing.
C9_Witness ==
    \E p \in Callers :
        /\ pc[p] = "returned"
        /\ ret[p] = Returned("RemoveEdge", A, B, FALSE, "nil", NoSet)
        /\ Decoded(txn[p].snap[A]) = SomeSet({C})
        /\ log[p].eff[A].add = {}
        /\ Decoded(txn[p].pendingWrites[A]) = SomeSet({C})

\* C10: GetEdges(from) on a source its transaction sees no record of returns
\* NotFound and no set, with a self-owned and with a caller-supplied
\* transaction; no failed GetEdges returns a set.
C10_GetAbsentFails ==
    [][\A p \in Callers : \A from \in Froms :
         /\ (GetEdges(p, from) /\ ~View(IF pc[p] = "idle" THEN NewTxn(FALSE) ELSE txn[p], from).has)
               => /\ pc'[p] = "returned"
                  /\ ret'[p] = Returned("GetEdges", from, EmptyId, pc[p] = "idle",
                                        "ErrKeyNotFound", NoSet)
         /\ (ret'[p].op = "GetEdges" /\ ret'[p].err # "nil") => ~ret'[p].val.has]_vars

\* One caller's self-owned GetEdges and the other's GetEdges inside its own
\* transaction have both returned NotFound.
C10_Witness ==
    \E p \in Callers : \E q \in Callers \ {p} :
        /\ pc[p] = "returned" /\ pc[q] = "returned"
        /\ ret[p] = Returned("GetEdges", A, EmptyId, TRUE, "ErrKeyNotFound", NoSet)
        /\ ret[q] = Returned("GetEdges", A, EmptyId, FALSE, "ErrKeyNotFound", NoSet)

\* C11: a committed record is never deleted: a source that has a committed
\* record has one after every step; a self-owned RemoveEdge that removes the
\* last member of a set commits a record holding the empty set, and GetEdges
\* on a record holding the empty set returns success and the empty set, not
\* NotFound.
C11_RecordsNeverDeleted ==
    [][/\ \A k \in Keys : db[k].has => db'[k].has
       /\ \A p \in Callers : \A e \in Edges :
            (OwnCall(p, "RemoveEdge", e[1], e[2]) /\ ret'[p].err = "nil"
                /\ Graph[e[1]].set \subseteq {e[2]})
               => (db'[e[1]].has /\ Graph'[e[1]] = SomeSet({}))
       /\ \A p \in Callers : \A from \in Froms :
            (GetEdges(p, from) /\ View(GetTxn(p), from).has
                /\ SeenSet(GetTxn(p), from) = {})
               => IF pc[p] = "idle"
                  THEN pc'[p] = "getcommit" /\ DeserializeEdgeMap(item'[p].val) = {}
                  ELSE ret'[p] = Returned("GetEdges", from, EmptyId, FALSE, "nil", SomeSet({}))
       /\ \A p \in Callers :
            (GetEdgesValue(p) /\ DeserializeEdgeMap(item[p].val) = {})
               => ret'[p] = Returned("GetEdges", item[p].from, EmptyId, TRUE, "nil",
                                     SomeSet({}))]_vars

\* The only edge of a has been removed and committed, and a self-owned
\* GetEdges(a) has returned the empty set.
C11_Witness ==
    \E p \in Callers :
        /\ pc[p] = "returned"
        /\ ret[p] = Returned("GetEdges", A, EmptyId, TRUE, "nil", SomeSet({}))
        /\ db[A] = Rec(<<>>)
        /\ expect[A] = SomeSet({})

\* An AddEdge or RemoveEdge call by p (every call moves p on).
EditStep(p) ==
    /\ pc'[p] # pc[p]
    /\ \E e \in Edges : AddEdge(p, e[1], e[2]) \/ RemoveEdge(p, e[1], e[2])

\* C12: an AddEdge or RemoveEdge called with the caller's transaction returns
\* with that transaction still open, and leaves the committed store and
\* every other transaction as they were; the caller's commit either succeeds
\* and puts every pending write of the transaction into the store in that
\* one step, the store then showing all the edits the transaction ran, or
\* fails and leaves the store as it was; a call with no transaction returns
\* success only from its own commit, with its write in the store and its
\* transaction closed.
C12_TxnScoping ==
    [][\A p \in Callers :
         /\ (pc[p] = "intxn" /\ EditStep(p))
               => /\ pc'[p] = "returned"
                  /\ txn'[p].open
                  /\ txn'[p].snap = txn[p].snap
                  /\ db' = db
                  /\ \A q \in Callers \ {p} : txn'[q] = txn[q]
         /\ (pc[p] = "idle" /\ EditStep(p))
               => (db' = db /\ \A q \in Callers \ {p} : txn'[q] = txn[q])
         /\ CallerCommit(p)
               => /\ ~txn'[p].open
                  /\ IF ret'[p].err = "nil"
                     THEN /\ \A k \in Keys :
                               db'[k] = IF k \in Written(txn[p])
                                        THEN txn[p].pendingWrites[k] ELSE db[k]
                          /\ Graph' = ApplyEdits(Graph, log[p].eff)
                     ELSE db' = db
         /\ (ret'[p] # ret[p] /\ ret'[p].local /\ ret'[p].err = "nil"
                /\ ret'[p].op \in {"AddEdge", "RemoveEdge"})
               => /\ pc[p] = "commit"
                  /\ ~txn'[p].open
                  /\ db'[ret'[p].from] = txn[p].pendingWrites[ret'[p].from]]_vars

\* A caller's transaction that ran AddEdge(a, b) and AddEdge(a, c) has
\* committed: both edges are in the store, where the other caller's snapshot,
\* taken while the edits were staged, has no record of a.
C12_Witness ==
    \E p \in Callers : \E q \in Callers \ {p} :
        /\ pc[p] = "returned"
        /\ ret[p] = Returned("Commit", EmptyId, EmptyId, FALSE, "nil", NoSet)
        /\ Graph[A] = SomeSet({B, C})
        /\ txn[q].open
        /\ ~txn[q].snap[A].has

\* C14: a self-owned AddEdge or RemoveEdge that has reached its commit has
\* read its source once and staged one write, for that source; its one
\* commit attempt is followed by the return, whatever the outcome; when
\* another transaction has committed a write of the source since the call
\* read it, the call returns Conflict with its transaction closed, and the
\* committed store and the history of committed edits stay as they were.
C14_NoInternalRetry ==
    /\ [](\A p \in Callers :
            pc[p] = "commit"
               => /\ txn[p].reads = {log[p].call.from}
                  /\ Written(txn[p]) = {log[p].call.from})
    /\ [][\A p \in Callers :
            OwnCommit(p)
               => /\ pc'[p] = "returned"
                  /\ ~txn'[p].open
                  /\ ret'[p].local
                  /\ ret'[p].op = log[p].call.op
                  /\ log[p].call.from \in txn[p].stale
                        => (ret'[p].err = "ErrConflict" /\ db' = db /\ expect' = expect)
                  /\ ret'[p].err # "nil" => db' = db]_vars

\* A self-owned AddEdge(a, c) has returned Conflict: the record of a is the
\* one the other caller committed meanwhile, without c.
C14_Witness ==
    \E p \in Callers :
        /\ pc[p] = "returned"
        /\ ret[p] = Returned("AddEdge", A, C, TRUE, "ErrConflict", NoSet)
        /\ Graph[A] = SomeSet({B})
        /\ ~txn[p].open

\* A step of a GetEdges call by p: its txn.Get, the commit of its own
\* transaction, or the reading of the value.
GetEdgesStep(p) ==
    /\ pc'[p] # pc[p]
    /\ \/ \E from \in Froms \cup Dsts : GetEdges(p, from)
       \/ GetEdgesCommit(p)
       \/ GetEdgesValue(p)

\* C16: no step of GetEdges, self-owned or in the caller's transaction,
\* changes the committed store, the pending writes of its transaction, or
\* anything of another caller's transaction (so no other transaction's
\* commit outcome depends on it); the transaction a self-owned GetEdges
\* commits is read-only with no pending write, and GetEdges never returns
\* Conflict.
C16_GetEdgesReadOnly ==
    /\ [](\A p \in Callers :
            /\ pc[p] \in {"getcommit", "getvalue"}
                  => (~txn[p].update /\ Written(txn[p]) = {})
            /\ ret[p].op = "GetEdges" => ret[p].err # "ErrConflict")
    /\ [][\A p \in Callers :
            GetEdgesStep(p)
               => /\ db' = db
                  /\ expect' = expect
                  /\ txn'[p].pendingWrites = txn[p].pendingWrites
                  /\ \A q \in Callers \ {p} : txn'[q] = txn[q]]_vars

\* A self-owned GetEdges(a) has returned {b} while the other caller's
\* read-write transaction, which has read a and staged a write of it, is
\* open and not stale.
C16_Witness ==
    \E p \in Callers : \E q \in Callers \ {p} :
        /\ pc[p] = "returned"
        /\ ret[p] = Returned("GetEdges", A, EmptyId, TRUE, "nil", SomeSet({B}))
        /\ txn[q].open /\ txn[q].update
        /\ txn[q].reads = {A}
        /\ Written(txn[q]) = {A}
        /\ txn[q].stale = {}

\* C17: whenever a self-owned GetEdges reads the value of the item it got
\* from txn.Get, the transaction that produced the item is still open.
C17_ValueInsideTxn ==
    [][\A p \in Callers : GetEdgesValue(p) => txn[p].open]_vars

\* The snapshot of a transaction, decoded.
SnapGraph(t) == [k \in Keys |-> Decoded(t.snap[k])]

Sources == {e[1] : e \in Edges}

\* C19: an AddEdge(from, to) or RemoveEdge(from, to) call changes no
\* committed record before its commit, adds at most from to the read set of
\* its transaction and changes its pending writes at from only; the commit
\* of a self-owned call changes the committed record of from only, and the
\* commit of a caller's transaction changes the records of the sources its
\* edits named only; a key that was never the source of an edit has no
\* committed record, and GetEdges on such a destination returns NotFound.
C19_EditFrame ==
    /\ [](\A k \in Keys \ Sources : ~db[k].has)
    /\ [][\A p \in Callers :
            /\ \A e \in Edges :
                 (pc'[p] # pc[p] /\ (AddEdge(p, e[1], e[2]) \/ RemoveEdge(p, e[1], e[2])))
                    => /\ db' = db
                       /\ txn'[p].open
                             => /\ txn'[p].reads \subseteq CallTxn(p).reads \cup {e[1]}
                                /\ \A k \in Keys \ {e[1]} :
                                     txn'[p].pendingWrites[k] = CallTxn(p).pendingWrites[k]
            /\ OwnCommit(p)
                  => \A k \in Keys \ {log[p].call.from} : db'[k] = db[k]
            /\ CallerCommit(p)
                  => \A k \in Keys \ log[p].ran : db'[k] = db[k]
            /\ \A to \in Dsts :
                 (pc[p] = "idle" /\ GetEdges(p, to))
                    => ret'[p] = Returned("GetEdges", to, EmptyId, TRUE,
                                          "ErrKeyNotFound", NoSet)]_vars

\* With the edge a -> b committed, GetEdges(b) has returned NotFound.
C19_Witness ==
    \E p \in Callers :
        /\ pc[p] = "returned"
        /\ ret[p] = Returned("GetEdges", B, EmptyId, TRUE, "ErrKeyNotFound", NoSet)
        /\ B \in Graph[A].set
        /\ ~db[B].has


-----------------------------------------------------------------------------
(* main: two goroutines, each editing inside a transaction of its own and  *)
(* committing with the retry loop, then the final reads.  The edit of each *)
(* goroutine is a parameter: main's own are RemoveEdge("a", "b") and       *)
(* RemoveEdge("c", "e"); the others put an AddEdge in the first goroutine  *)
(* and both goroutines on source "a".                                      *)

Goroutines == {1, 2}
RetryLimit == 10

Job(op, from, to) == [op |-> op, from |-> from, to |-> to]
MainJobs == <<Job("RemoveEdge", A, B), Job("RemoveEdge", C, E)>>
FirstJobs == {MainJobs[1], Job("AddEdge", A, D)}
SecondJobs == {MainJobs[2], Job("RemoveEdge", A, C)}

\* The state main reaches before it starts the goroutines: a -> {b, c} and
\* c -> {d, e}, each record in one of the orders it can have been written in.
MainInit ==
    /\ \E ba \in SerializeEdgeMap({B, C}), bc \in SerializeEdgeMap({D, E}) :
         db = [k \in Keys |-> IF k = A THEN Rec(ba) ELSE IF k = C THEN Rec(bc) ELSE NoRec]
    /\ expect = [k \in Keys |-> IF k = A THEN SomeSet({B, C})
                                ELSE IF k = C THEN SomeSet({D, E}) ELSE NoSet]
    /\ txn = [g \in Goroutines |-> NoTxn]
    /\ pc = [g \in Goroutines |-> "new"]
    /\ ret = [g \in Goroutines |-> NoRet]
    /\ item = [g \in Goroutines |-> NoItem]
    /\ log = [g \in Goroutines |-> NoLog]
    /\ job \in {<<j1, j2>> : j1 \in FirstJobs, j2 \in SecondJobs}
    /\ i = [g \in Goroutines |-> 0]
    /\ err = [g \in Goroutines |-> "none"]
    /\ first = [g \in Goroutines |-> "none"]
    /\ raced = FALSE
    /\ final = <<>>
    /\ defers = [g \in Goroutines |-> 0]
    /\ CodecOff

\* The goroutine's first transaction is open.
InFirstTxn(g) == i[g] = 0 /\ pc[g] \in {"edit", "get", "commit"}

\* txn := graph.db.NewTransaction(true) and defer txn.Discard(), before the
\* first attempt and in the loop body.
GoNewTransaction(g) ==
    /\ pc[g] = "new"
    /\ txn' = [txn EXCEPT ![g] = NewTxn(TRUE)]
    /\ log' = [log EXCEPT ![g] = NoLog]
    /\ pc' = [pc EXCEPT ![g] = "edit"]
    /\ raced' = (raced \/ (i[g] = 0 /\ \E h \in Goroutines \ {g} : InFirstTxn(h)))
    /\ defers' = [defers EXCEPT ![g] = @ + 1]
    /\ UNCHANGED <<db, ret, item, expect, job, i, err, first, final, codecVars>>

\* The edit call with the goroutine's transaction; what it returns is dropped.
GoEdit(g) ==
    /\ pc[g] = "edit"
    /\ \E o \in (IF job[g].op = "AddEdge"
                 THEN AddEdgeStaged(txn[g], job[g].from, job[g].to)
                 ELSE RemoveEdgeStaged(txn[g], job[g].from, job[g].to)) :
          /\ txn' = [txn EXCEPT ![g] = o.txn]
          /\ log' = [log EXCEPT ![g] =
                       Logged(@, FALSE, job[g].op, job[g].from, job[g].to, o.err)]
    /\ pc' = [pc EXCEPT ![g] = IF i[g] = 0 THEN "get" ELSE "commit"]
    /\ UNCHANGED <<db, ret, item, expect, mainVars, codecVars>>

\* a_n, _ = graph.GetEdges(from, txn), in the first attempt only.
GoGetEdges(g) ==
    /\ pc[g] = "get"
    /\ LET r == GetEdgesGet(txn[g], job[g].from)
       IN  /\ txn' = [txn EXCEPT ![g] = r.txn]
           /\ ret' = [ret EXCEPT ![g] =
                        Returned("GetEdges", job[g].from, EmptyId, FALSE, r.err,
                                 IF r.err = "nil" THEN SomeSet(DeserializeEdgeMap(r.val))
                                 ELSE NoSet)]
    /\ pc' = [pc EXCEPT ![g] = "commit"]
    /\ UNCHANGED <<db, item, log, expect, mainVars, codecVars>>

\* A loop that gives up after the first conflict.
RetryNever(e, n) == FALSE

\* A loop that allows one attempt more.
RetryOnceMore(e, n) == e = "ErrConflict" /\ n <= RetryLimit

\* The loop condition: err == badger.ErrConflict && i < 10.
RetryAgain(e, n) == e = "ErrConflict" /\ n < RetryLimit

\* err := txn.Commit() with the counter (i := 1 before the first commit, i++
\* after each later one) and the loop test that follows it; when the loop
\* ends the goroutine returns, which runs its deferred Discard calls.
GoCommit(g) ==
    /\ pc[g] = "commit"
    /\ LET c == TxnCommit(g)
       IN  /\ Committing(g, c)
           /\ err' = [err EXCEPT ![g] = c.err]
           /\ first' = [first EXCEPT ![g] = IF i[g] = 0 THEN c.err ELSE @]
           /\ i' = [i EXCEPT ![g] = @ + 1]
           /\ pc' = [pc EXCEPT ![g] = IF RetryAgain(c.err, i[g] + 1) THEN "new" ELSE "done"]
           /\ defers' = [defers EXCEPT ![g] = IF RetryAgain(c.err, i[g] + 1) THEN @ ELSE 0]
    /\ UNCHANGED <<ret, item, job, raced, final, codecVars>>

AllDone == \A g \in Goroutines : pc[g] = "done"

\* A whole GetEdges(from, nil) with nothing running beside it.
GetEdgesAlone(from) ==
    LET r == GetEdgesGet(NewTxn(FALSE), from)
    IN  [err |-> r.err,
         val |-> IF r.err = "nil" THEN SomeSet(DeserializeEdgeMap(r.val)) ELSE NoSet]

\* After wg.Wait(): GetEdges("a", nil), then GetEdges("c", nil).
MainGetEdges ==
    /\ AllDone
    /\ Len(final) < 2
    /\ final' = Append(final, GetEdgesAlone(IF final = <<>> THEN A ELSE C))
    /\ UNCHANGED <<storeVars, job, i, err, first, raced, defers, codecVars>>

GoStep(g) == GoNewTransaction(g) \/ GoEdit(g) \/ GoGetEdges(g) \/ GoCommit(g)

MainNext ==
    \/ \E g \in Goroutines :
          \/ GoNewTransaction(g)
          \/ GoEdit(g)
          \/ GoGetEdges(g)
          \/ GoCommit(g)
    \/ MainGetEdges

\* Every goroutine that can take a step eventually takes one, and so does
\* main once the goroutines are done.
MainSpec ==
    /\ MainInit
    /\ [][MainNext]_vars
    /\ \A g \in Goroutines : WF_vars(GoStep(g))
    /\ WF_vars(MainGetEdges)

SameSource == job[1].from = job[2].from

\* The committed record shows the job's edit.
Reflects(j) ==
    IF j.op = "AddEdge" THEN j.to \in Graph[j.from].set
    ELSE j.to \notin Graph[j.from].set

\* C2: two goroutines editing the same source: when their first
\* transactions overlapped, one first commit succeeds and the other gets
\* Conflict; both goroutines finish with a successful commit, and the
\* committed record then shows both edits.
C2_SameNodeConverges ==
    /\ [](SameSource /\ raced /\ (\A g \in Goroutines : first[g] # "none")
             => {first[g] : g \in Goroutines} = {"nil", "ErrConflict"})
    /\ [](SameSource /\ AllDone
             => /\ \A g \in Goroutines : err[g] = "nil" /\ Reflects(job[g])
                /\ CommittedIsHistory)
    /\ (SameSource => <>AllDone)

\* Both goroutines removed from "a" in overlapping transactions, one was
\* refused and retried, and both are done.
C2_Witness ==
    /\ job = <<Job("RemoveEdge", A, B), Job("RemoveEdge", A, C)>>
    /\ raced
    /\ first[1] = "ErrConflict"
    /\ i[1] = 2
    /\ AllDone
    /\ Graph[A] = SomeSet({})

\* C3: with main's own edits, once both goroutines have finished, the final
\* GetEdges("a") returns {"c"} and GetEdges("c") returns {"d"}.
C3_DisjointConverge ==
    (job = MainJobs /\ AllDone)
        => /\ Graph[A] = SomeSet({C}) /\ Graph[C] = SomeSet({D})
           /\ Len(final) >= 1 => final[1] = [err |-> "nil", val |-> SomeSet({C})]
           /\ Len(final) = 2 => final[2] = [err |-> "nil", val |-> SomeSet({D})]

\* main's own run has made both final reads.
C3_Witness == job = MainJobs /\ AllDone /\ Len(final) = 2 /\ raced

\* C15: when a goroutine opens a transaction, it has called Discard on
\* every transaction it opened before (none of its deferred Discard calls is
\* still to run), and it holds no transaction that is still open.
C15_DiscardBeforeReopen ==
    [][\A g \in Goroutines :
         GoNewTransaction(g) => (defers[g] = 0 /\ ~txn[g].open)]_vars

\* C20: two goroutines whose transactions read and write different sources:
\* in every interleaving the first commit of each succeeds, so each makes
\* one attempt and none enters its retry loop.
C20_DisjointNoConflict ==
    ~SameSource
       => \A g \in Goroutines :
            /\ first[g] \in {"none", "nil"}
            /\ err[g] \in {"none", "nil"}
            /\ i[g] <= 1
            /\ i[g] = 1 => (pc[g] = "done" /\ first[g] = "nil")
            /\ txn[g].open => txn[g].reads \cup Written(txn[g]) \subseteq {job[g].from}

\* An AddEdge on "a" and a RemoveEdge on "c" ran in overlapping
\* transactions and both goroutines are done after one attempt each.
C20_Witness ==
    /\ job = <<Job("AddEdge", A, D), Job("RemoveEdge", C, E)>>
    /\ raced
    /\ AllDone
    /\ i = [g \in Goroutines |-> 1]
    /\ Graph[A] = SomeSet({B, C, D})
    /\ Graph[C] = SomeSet({D})

-----------------------------------------------------------------------------
(* The retry loop under contention: one goroutine of main commits with the *)
(* retry loop while another caller keeps committing edits of the same      *)
(* source with no transaction of its own to retry, so that any number of   *)
(* the goroutine's attempts can meet a conflict.                           *)

Retrier == 1
Interferer == 2

RetryInit ==
    /\ \E ba \in SerializeEdgeMap({B, C}) :
         db = [k \in Keys |-> IF k = A THEN Rec(ba) ELSE NoRec]
    /\ expect = [k \in Keys |-> IF k = A THEN SomeSet({B, C}) ELSE NoSet]
    /\ txn = [g \in Goroutines |-> NoTxn]
    /\ pc = [g \in Goroutines |-> IF g = Retrier THEN "new" ELSE "idle"]
    /\ ret = [g \in Goroutines |-> NoRet]
    /\ item = [g \in Goroutines |-> NoItem]
    /\ log = [g \in Goroutines |-> NoLog]
    /\ job = <<MainJobs[1], MainJobs[1]>>
    /\ i = [g \in Goroutines |-> 0]
    /\ err = [g \in Goroutines |-> "none"]
    /\ first = [g \in Goroutines |-> "none"]
    /\ raced = FALSE
    /\ final = <<>>
    /\ defers = [g \in Goroutines |-> 0]
    /\ CodecOff

\* The other caller: AddEdge("a", "c") or RemoveEdge("a", "c") with no
\* transaction, each with its own commit.
Interfere ==
    \/ AddEdge(Interferer, A, C)
    \/ RemoveEdge(Interferer, A, C)
    \/ OwnCommit(Interferer)
    \/ Resume(Interferer)

RetryNext ==
    \/ GoNewTransaction(Retrier)
    \/ GoEdit(Retrier)
    \/ GoGetEdges(Retrier)
    \/ GoCommit(Retrier)
    \/ Interfere

\* The goroutine keeps running; the other caller may stop at any time.
RetrySpec ==
    /\ RetryInit
    /\ [][RetryNext]_vars
    /\ WF_vars(GoStep(Retrier))

\* C13: the goroutine makes at most 10 commit attempts; it starts another
\* attempt only after a commit that returned Conflict, and ends the loop at
\* once after any other outcome; a 10th attempt that returns Conflict ends
\* the loop with that Conflict; the loop ends in every execution.
C13_BoundedRetry ==
    /\ [](i[Retrier] <= 10)
    /\ [][GoCommit(Retrier)
            => /\ i'[Retrier] = i[Retrier] + 1
               /\ pc'[Retrier] = "new" => (err'[Retrier] = "ErrConflict" /\ i'[Retrier] < 10)
               /\ err'[Retrier] # "ErrConflict" => pc'[Retrier] = "done"
               /\ i'[Retrier] = 10 => pc'[Retrier] = "done"]_vars
    /\ [][pc[Retrier] = "done" => (pc'[Retrier] = "done" /\ err'[Retrier] = err[Retrier])]_vars
    /\ <>(pc[Retrier] = "done")

\* All 10 attempts met a conflict and the loop has ended with Conflict.
C13_Witness ==
    /\ pc[Retrier] = "done"
    /\ i[Retrier] = 10
    /\ err[Retrier] = "ErrConflict"
    /\ first[Retrier] = "ErrConflict"

=============================================================================
